---------------------------- MODULE Spec2Model ----------------------------
(***************************************************************************)
(* Model of the resumable mail-merge service of src/app.py: the in-memory  *)
(* company dataset, the send task persisted in STATE_FILE, and the four    *)
(* request handlers upload_excel, send_emails, process_next, email_status. *)
(*                                                                         *)
(* Conventions.                                                            *)
(*   - A Python value that may be None is an option: <<>> is None and      *)
(*     <<v>> is the value v.                                               *)
(*   - A Python str is a sequence of one-character strings, so that        *)
(*     '@' in s, s.lower() and ', '.join(...) are computed, not assumed.   *)
(*   - A spreadsheet cell is a record [t, v]: t = "str" with v the text,   *)
(*     or t = "float" for NaN (an empty cell as pandas reads it).          *)
(*   - Days are counted from 2024-10-31, so 2024-11-27 is day 27 and       *)
(*     2024-12-12 is day 42.                                               *)
(*   - Spec takes STATE_FILE to be readable and writable (json.load and    *)
(*     json.dump succeed) and serves one request at a time.  SpecDisk adds *)
(*     requests served while the file cannot be written, SpecThreads       *)
(*     serves process_next requests on several threads, SpecUpload follows *)
(*     a task across uploads, and SpecLive is the run of a caller that     *)
(*     keeps calling process_next with a working mailer.                   *)
(*   - The company name and the patent numbers only flow into message      *)
(*     texts; they decide nothing and are left out of the records.         *)
(***************************************************************************)
EXTENDS Integers, Sequences, FiniteSets, TLC

\* Largest number of companies an uploaded spreadsheet holds.
MaxCompanies == 2

\* Largest number of entries the history of processed companies holds when
\* a step is taken whose result cannot be saved.
MaxHistory == 3

\* Number of threads that serve process_next requests at the same time.
MaxThreads == 2

\* datetime(2024, 11, 27), as a day number.
BaseDay == 27

\* timedelta(days=15).
FollowUpDelta == 15

\* retries = 2.
retries == 2

None == <<>>

Some(v) == <<v>>

Val(o) == o[1]

-----------------------------------------------------------------------------
(* Python str operations on character sequences.                           *)

LowerChar(c) ==
  CASE c = "Y" -> "y"
    [] c = "E" -> "e"
    [] c = "S" -> "s"
    [] c = "N" -> "n"
    [] c = "O" -> "o"
    [] OTHER -> c

\* s.lower()
Lower(s) == [i \in 1..Len(s) |-> LowerChar(s[i])]

\* c in s
Contains(s, c) == \E i \in 1..Len(s) : s[i] = c

Str(s) == [t |-> "str", v |-> s]

NaN == [t |-> "float", v |-> <<>>]

\* isinstance(x, str)
IsStr(x) == x.t = "str"

\* pd.isna(x)
IsNa(x) == x.t = "float"

\* Faulty variant of Truthy: the empty string counts as a value too.
Truthy_empty_string(x) == TRUE

\* not x   (Python truthiness of a cell value: '' is falsy, nan is truthy)
Truthy(x) == IF IsStr(x) THEN x.v # <<>> ELSE TRUE

Min(a, b) == IF a < b THEN a ELSE b

-----------------------------------------------------------------------------
(* Company records: grouped.to_dict('records').  Email and First Name are  *)
(* lists built from the same rows, so they have the same length.           *)

S_a == <<"a", "@", "x">>

S_b == <<"b", "@", "x">>

S_bad == <<"b", "a", "d">>

Company(emails, names, response) ==
  [Email |-> emails, FirstName |-> names, Response |-> response]

CompanyCatalogue ==
  { Company(<<Str(S_a)>>, <<Str(<<"A">>)>>, NaN),
    Company(<<Str(S_a), Str(S_b)>>, <<Str(<<"A">>), Str(<<"B">>)>>, Str(<<"N", "o">>)),
    Company(<<Str(S_a)>>, <<Str(<<"A">>)>>, Str(<<"Y", "E", "S">>)),
    Company(<<Str(S_bad), NaN>>, <<Str(<<"A">>), Str(<<"B">>)>>, Str(<<>>)),
    Company(<<Str(S_a)>>, <<Str(<<"A">>)>>, Str(<<"m", "a", "y", "b", "e">>)),
    Company(<<Str(S_a), Str(S_b)>>, <<NaN, Str(<<"B">>)>>, Str(<<"n", "o">>)),
    Company(<<Str(S_a)>>, <<Str(<<>>)>>, NaN),
    Company(<<Str(S_bad)>>, <<NaN>>, Str(<<"n", "o">>)) }

Datasets == UNION { [1..n -> CompanyCatalogue] : n \in 0..MaxCompanies }

-----------------------------------------------------------------------------
(* Recipient resolution and message selection (process_next_company).      *)

\* Faulty variant of valid_emails: every str entry counts as an address.
valid_emails_any_str(emails) ==
  SelectSeq(emails, LAMBDA e : IsStr(e))

\* [email for email in emails if isinstance(email, str) and '@' in email]
valid_emails(emails) ==
  SelectSeq(emails, LAMBDA e : IsStr(e) /\ Contains(e.v, "@"))

\* first_names[:len(valid_emails)]
valid_first_names(company) ==
  SubSeq(company.FirstName, 1,
         Min(Len(valid_emails(company.Email)), Len(company.FirstName)))

\* ', '.join(names)   (names are str cells)
RECURSIVE Join(_)
Join(names) ==
  IF names = <<>> THEN <<>>
  ELSE IF Len(names) = 1 THEN names[1].v
  ELSE names[1].v \o <<",", " ">> \o Join(Tail(names))

\* The greeting: [raised |-> TRUE] when str.join or + meets a non-str name
\* (TypeError), else the value of names_list.
names_list(company) ==
  LET vfn == valid_first_names(company) IN
  IF Len(vfn) > 1
  THEN IF \A i \in 1..Len(vfn) : IsStr(vfn[i])
       THEN [raised |-> FALSE,
             value |-> Str(Join(SubSeq(vfn, 1, Len(vfn) - 1))
                           \o <<" ", "&", " ">> \o vfn[Len(vfn)].v)]
       ELSE [raised |-> TRUE, value |-> Str(<<>>)]
  ELSE [raised |-> FALSE, value |-> IF vfn # <<>> THEN vfn[1] ELSE Str(<<>>)]

\* datetime(2024, 11, 27) + timedelta(days=15)
follow_up_date == BaseDay + FollowUpDelta

\* isinstance(response, str) and response.lower() == 'yes'
response_is_yes(response) ==
  IsStr(response) /\ Lower(response.v) = <<"y", "e", "s">>

\* Faulty variant of select_template: 'no' is compared without lower().
select_template_case_sensitive(response, current_date) ==
  IF IsNa(response) \/ response = Str(<<>>) THEN "initial"
  ELSE IF IsStr(response) /\ response.v = <<"n", "o">>
          /\ current_date >= follow_up_date THEN "follow_up"
  ELSE "none"

\* The if / elif / else that sets subject and html.
select_template(response, current_date) ==
  IF IsNa(response) \/ response = Str(<<>>) THEN "initial"
  ELSE IF IsStr(response) /\ Lower(response.v) = <<"n", "o">>
          /\ current_date >= follow_up_date THEN "follow_up"
  ELSE "none"

\* What the step does with one company, up to the mailer call.
decide(company, current_date) ==
  LET valid == valid_emails(company.Email)
      names == names_list(company)
      template == select_template(company.Response, current_date)
      NoMail(k) == [kind |-> k, to |-> <<>>, template |-> "none",
                    greeting |-> Str(<<>>)]
  IN
  IF valid = <<>> THEN NoMail("no_valid_emails")
  ELSE IF names.raised THEN NoMail("raise")
  ELSE IF ~Truthy(names.value) THEN NoMail("no_valid_names")
  ELSE IF response_is_yes(company.Response) THEN NoMail("response_yes")
  ELSE IF template = "none" THEN NoMail("condition")
  ELSE [kind |-> "send", to |-> valid, template |-> template,
        greeting |-> names.value]

\* Faulty variant of planned_emails: a company counts as one email.
planned_emails_one_each(company) ==
  IF response_is_yes(company.Response) THEN 0
  ELSE IF valid_emails(company.Email) = <<>> THEN 0
  ELSE IF valid_first_names(company) = <<>> THEN 0
  ELSE 1

\* The contribution of one company to total_emails_to_send (send_emails).
planned_emails(company) ==
  IF response_is_yes(company.Response) THEN 0
  ELSE IF valid_emails(company.Email) = <<>> THEN 0
  ELSE IF valid_first_names(company) = <<>> THEN 0
  ELSE Len(valid_emails(company.Email))

\* for idx in range(start_index, end_index + 1): total_emails_to_send += ...
RECURSIVE count_total_emails(_, _, _)
count_total_emails(data, start_index, end_index) ==
  IF start_index > end_index THEN 0
  ELSE planned_emails(data[start_index + 1])
       + count_total_emails(data, start_index + 1, end_index)

-----------------------------------------------------------------------------
(* The persisted task (STATE_FILE) and the task state store.               *)

VARIABLES
  companies_data,   \* the global list of company records (in memory)
  state_file,       \* the content of STATE_FILE, or NoFile
  email_task,       \* the global email_task (in memory)
  today,            \* the day datetime.now() falls on
  last,             \* the last request: its handler, response and mailer
                    \* calls, and what an accepted start overwrote
  outcomes,         \* history: the companies the current task processed
  task_data,        \* history: the dataset the current task was started on
  threads           \* the process_next requests being served, one per thread

vars == <<companies_data, state_file, email_task, today, last, outcomes, task_data,
          threads>>

NoFile == [absent |-> TRUE]

\* The dict load_email_task returns when there is no file.
DefaultTask ==
  [in_progress |-> FALSE, email |-> None, password |-> None,
   start_index |-> None, end_index |-> None, current_index |-> None,
   sent_emails |-> 0, total_emails_to_send |-> 0, error |-> None]

load_email_task(file) == IF file = NoFile THEN DefaultTask ELSE file

\* The content of STATE_FILE after save_email_task(task).
save_email_task(file, task) == task

-----------------------------------------------------------------------------
(* Requests, the mailer and responses.                                     *)

Senders == {"s1@x"}

\* data.get('email', os.getenv('EMAIL')) and data.get('password', ...):
\* the value after the default is applied.
Requests ==
  [email : {None} \cup {Some(e) : e \in Senders},
   password : {None, Some("pw")},
   startIndex : {None} \cup {Some(i) : i \in -1..MaxCompanies},
   endIndex : {None} \cup {Some(i) : i \in -1..MaxCompanies}]

\* str(e) of the exception a mailer attempt raises; None when it succeeds.
AttemptResults == {None, Some("SMTPAuthenticationError")}

\* What smtplib does on each of the attempts of one step.
MailerRuns == [1..retries -> AttemptResults]

\* Faulty variant of send_with_retries: the loop has no break, every attempt
\* is made.
send_with_retries_no_break(mailer, attempt) ==
  [calls |-> mailer, error |-> mailer[retries]]

\* The retry loop: the results of the attempts made, and the error that ends
\* the loop (None when an attempt succeeded).
RECURSIVE send_with_retries(_, _)
send_with_retries(mailer, attempt) ==
  IF mailer[attempt] = None
  THEN [calls |-> SubSeq(mailer, 1, attempt), error |-> None]
  ELSE IF attempt = retries
  THEN [calls |-> SubSeq(mailer, 1, attempt), error |-> mailer[attempt]]
  ELSE send_with_retries(mailer, attempt + 1)

NoCall ==
  [op |-> "none", code |-> 0, msg |-> "none", calls |-> <<>>,
   company |-> None, template |-> "none", to |-> <<>>, started |-> FALSE,
   replaced |-> "none"]

\* A response that involved no company.
Plain(op, code, msg) ==
  [op |-> op, code |-> code, msg |-> msg, calls |-> <<>>,
   company |-> None, template |-> "none", to |-> <<>>, started |-> FALSE,
   replaced |-> "none"]

-----------------------------------------------------------------------------
(* process_next_company: one step of the task.  The result is the new      *)
(* content of STATE_FILE, the new global email_task, the response and the  *)
(* entry the step adds to the history of processed companies.              *)

\* Faulty variant of advance: the index moves two companies on.
advance_twice(task) ==
  [task EXCEPT !.current_index = Some(Val(task.current_index) + 2)]

\* email_task["current_index"] += 1
advance(task) ==
  [task EXCEPT !.current_index = Some(Val(task.current_index) + 1)]

\* Faulty variant of mark_failed: the error is recorded and the task stays in progress.
mark_failed_in_progress(task, message) ==
  [task EXCEPT !.error = Some(message)]

\* email_task["error"] = str(e); email_task["in_progress"] = False
mark_failed(task, message) ==
  [task EXCEPT !.error = Some(message), !.in_progress = FALSE]

\* Faulty variant of mark_completed: the count of sent emails is reset too.
mark_completed_reset(task) ==
  [task EXCEPT !.in_progress = FALSE, !.sent_emails = 0]

\* email_task["in_progress"] = False   (the range is exhausted)
mark_completed(task) == [task EXCEPT !.in_progress = FALSE]

\* Faulty variant of past_end: >= in place of >.
past_end_inclusive(task) == Val(task.current_index) >= Val(task.end_index)

\* if current_index > email_task["end_index"]
past_end(task) == Val(task.current_index) > Val(task.end_index)

StepResult(file, task, resp, log) ==
  [file |-> file, task |-> task, resp |-> resp, log |-> log]

process_next_company(file, data, current_date, mailer) ==
  LET task == load_email_task(file) IN
  IF ~task.in_progress
  THEN StepResult(file, task, Plain("process_next", 400, "no_task"), <<>>)
  ELSE
  LET current_index == Val(task.current_index)
      Resp(code, msg, calls, d) ==
        [op |-> "process_next", code |-> code, msg |-> msg,
         calls |-> calls, company |-> Some(current_index),
         template |-> d.template, to |-> d.to, started |-> FALSE,
         replaced |-> "none"]
      Entry(result) == <<[idx |-> current_index, result |-> result]>>
  IN
  IF past_end(task)
  THEN LET done == mark_completed(task) IN
       StepResult(save_email_task(file, done), done,
                  Plain("process_next", 200, "finished"), <<>>)
  ELSE IF current_index >= Len(data)
  THEN \* companies_data[current_index] raises IndexError
       LET failed == mark_failed(task, "list index out of range") IN
       StepResult(save_email_task(file, failed), failed,
                  Plain("process_next", 500, "processing_error"),
                  Entry("raised"))
  ELSE
  LET company == data[current_index + 1]
      d == decide(company, current_date)
  IN
  CASE d.kind = "raise" ->
         LET failed == mark_failed(task, "TypeError") IN
         StepResult(save_email_task(file, failed), failed,
                    Resp(500, "processing_error", <<>>, d), Entry("raised"))
    [] d.kind = "send" ->
         LET run == send_with_retries(mailer, 1) IN
         IF run.error = None
         THEN LET sent == advance([task EXCEPT !.sent_emails = @ + Len(d.to)]) IN
              StepResult(save_email_task(file, sent), sent,
                         Resp(200, "sent", run.calls, d), Entry("sent"))
         ELSE LET failed == mark_failed(task, Val(run.error)) IN
              StepResult(save_email_task(file, failed), failed,
                         Resp(500, "mailer_error", run.calls, d),
                         Entry("failed"))
    [] d.kind = "condition" ->
         LET skipped == advance(task) IN
         StepResult(save_email_task(file, skipped), skipped,
                    Resp(200, "skipped_condition", <<>>, d), Entry("skipped"))
    [] OTHER ->
         LET skipped == advance(task) IN
         StepResult(save_email_task(file, skipped), skipped,
                    Resp(200, "skipped", <<>>, d), Entry("skipped"))

-----------------------------------------------------------------------------
(* send_emails: validation and creation of the task.                       *)

\* Faulty variant of already_in_progress: the check is left out.
already_in_progress_ignored(task) == FALSE

\* if email_task["in_progress"]
already_in_progress(task) == task.in_progress

\* Faulty variant of missing_credentials: the password is not checked.
missing_credentials_email_only(req) ==
  req.email = None \/ req.email = Some("")

\* if not email or not password
missing_credentials(req) ==
  \/ req.email = None \/ req.email = Some("")
  \/ req.password = None \/ req.password = Some("")

\* if start_index < 0 or end_index >= len(companies_data) or start_index > end_index
\* "raise": a comparison with None raises TypeError.
index_range(req, data) ==
  IF req.startIndex = None THEN "raise"
  ELSE IF Val(req.startIndex) < 0 THEN "invalid"
  ELSE IF req.endIndex = None THEN "raise"
  ELSE IF Val(req.endIndex) >= Len(data) THEN "invalid"
  ELSE IF Val(req.startIndex) > Val(req.endIndex) THEN "invalid"
  ELSE "ok"

\* Faulty variant of new_task: the task starts at the first company of the dataset.
new_task_from_zero(req, data) ==
  [in_progress |-> TRUE, email |-> req.email, password |-> req.password,
   start_index |-> req.startIndex, end_index |-> req.endIndex,
   current_index |-> Some(0), sent_emails |-> 0,
   total_emails_to_send |->
     count_total_emails(data, Val(req.startIndex), Val(req.endIndex)),
   error |-> None]

\* Faulty variant of new_task: sent_emails and error are taken over from the
\* task that STATE_FILE holds.
new_task_keeping_old(req, data) ==
  [in_progress |-> TRUE, email |-> req.email, password |-> req.password,
   start_index |-> req.startIndex, end_index |-> req.endIndex,
   current_index |-> req.startIndex,
   sent_emails |-> load_email_task(state_file).sent_emails,
   total_emails_to_send |->
     count_total_emails(data, Val(req.startIndex), Val(req.endIndex)),
   error |-> load_email_task(state_file).error]

\* The task send_emails creates.
new_task(req, data) ==
  [in_progress |-> TRUE, email |-> req.email, password |-> req.password,
   start_index |-> req.startIndex, end_index |-> req.endIndex,
   current_index |-> req.startIndex, sent_emails |-> 0,
   total_emails_to_send |->
     count_total_emails(data, Val(req.startIndex), Val(req.endIndex)),
   error |-> None]

\* Why send_emails rejects the request, "accept" when it does not.
validate(task, req, data) ==
  IF already_in_progress(task) THEN "already_in_progress"
  ELSE IF missing_credentials(req) THEN "credentials_required"
  ELSE IF data = <<>> THEN "no_company_data"
  ELSE IF index_range(req, data) = "raise" THEN "exception"
  ELSE IF index_range(req, data) = "invalid" THEN "invalid_range"
  ELSE "accept"

-----------------------------------------------------------------------------
(* The state machine.                                                      *)

\* The days the model lets datetime.now() fall on: the eve of follow_up_date
\* and follow_up_date itself.
Days == (follow_up_date - 1)..follow_up_date

Threads == 1..MaxThreads

\* A thread that serves no process_next request.
Idle == [pc |-> "idle", current_index |-> None, valid_emails |-> <<>>]

Init ==
  /\ threads = [t \in Threads |-> Idle]
  /\ companies_data = <<>>
  /\ state_file = NoFile
  /\ email_task = load_email_task(NoFile)
  /\ today = follow_up_date - 1
  /\ last = NoCall
  /\ outcomes = <<>>
  /\ task_data = None

\* POST /api/upload-excel with a spreadsheet that groups into data.
upload_excel(data) ==
  /\ companies_data' = data
  /\ last' = Plain("upload_excel", 200, "processed")
  /\ task_data' = None
  /\ UNCHANGED <<state_file, email_task, today, outcomes, threads>>

\* POST /api/upload-excel without a file, or without a required column.
upload_rejected ==
  /\ last' = Plain("upload_excel", 400, "rejected")
  /\ UNCHANGED <<companies_data, state_file, email_task, today, outcomes, task_data, threads>>

\* POST /api/send-emails, answered with an error before a task is created.
\* The response depends on the request only through the check that fails.
send_emails_rejected(verdict) ==
  /\ email_task' = load_email_task(state_file)
  /\ last' = Plain("send_emails",
                   IF verdict = "exception" THEN 500 ELSE 400, verdict)
  /\ UNCHANGED <<companies_data, state_file, today, outcomes, task_data, threads>>

\* The 'status' email_status reports for a task.
status_of(task) ==
  IF ~task.in_progress /\ task.error # None /\ Val(task.error) # "" THEN "failed"
  ELSE IF ~task.in_progress THEN "completed"
  ELSE "in_progress"

\* What an accepted send_emails call overwrites: "none" when there is no
\* STATE_FILE yet, else the status of the task the file holds.
replaced_task(file) ==
  IF file = NoFile THEN "none" ELSE status_of(load_email_task(file))

\* POST /api/send-emails that passes validation: the task is created and
\* saved, and process_next_company() runs on it at once.
send_emails_accepted(req, mailer) ==
  LET created == new_task(req, companies_data)
      step == process_next_company(save_email_task(state_file, created),
                                   companies_data, today, mailer)
  IN
  /\ state_file' = step.file
  /\ email_task' = step.task
  /\ last' = [step.resp EXCEPT !.op = "send_emails", !.started = TRUE,
                               !.replaced = replaced_task(state_file)]
  /\ outcomes' = step.log
  /\ task_data' = Some(companies_data)
  /\ UNCHANGED <<companies_data, today, threads>>

\* The mailer is consulted only by a step that reaches the retry loop.
MailerRunsFor(file) ==
  LET task == load_email_task(file) IN
  IF /\ task.in_progress
     /\ ~past_end(task)
     /\ Val(task.current_index) < Len(companies_data)
     /\ decide(companies_data[Val(task.current_index) + 1], today).kind = "send"
  THEN MailerRuns
  ELSE {[attempt \in 1..retries |-> None]}

\* POST /api/send-emails
send_emails ==
  LET verdict(req) == validate(load_email_task(state_file), req, companies_data) IN
  \/ \E v \in {verdict(req) : req \in Requests} \ {"accept"} :
       send_emails_rejected(v)
  \/ \E req \in {r \in Requests : verdict(r) = "accept"} :
       \E mailer \in MailerRunsFor(new_task(req, companies_data)) :
         send_emails_accepted(req, mailer)

\* POST /api/process-next
process_next(mailer) ==
  LET step == process_next_company(state_file, companies_data, today, mailer) IN
  /\ state_file' = step.file
  /\ email_task' = step.task
  /\ last' = step.resp
  /\ outcomes' = outcomes \o step.log
  /\ UNCHANGED <<companies_data, today, task_data, threads>>

\* GET /api/email-status
email_status ==
  LET task == load_email_task(state_file) IN
  /\ email_task' = task
  /\ last' = Plain("email_status", 200, status_of(task))
  /\ UNCHANGED <<companies_data, state_file, today, outcomes, task_data, threads>>

\* The process is restarted: the module globals are built again, STATE_FILE stays.
Restart ==
  /\ companies_data' = <<>>
  /\ email_task' = load_email_task(state_file)
  /\ last' = NoCall
  /\ UNCHANGED <<state_file, today, outcomes, task_data, threads>>

\* Midnight passes.
AdvanceDay ==
  /\ today + 1 \in Days
  /\ today' = today + 1
  /\ last' = NoCall
  /\ UNCHANGED <<companies_data, state_file, email_task, outcomes, task_data, threads>>

Next ==
  \/ \E data \in Datasets : upload_excel(data)
  \/ upload_rejected
  \/ send_emails
  \/ \E mailer \in MailerRunsFor(state_file) : process_next(mailer)
  \/ email_status
  \/ Restart
  \/ AdvanceDay

Spec == Init /\ [][Next]_vars

-----------------------------------------------------------------------------
(* Properties.  `last` describes the request that made the latest step, so *)
(* a formula over the primed `last` speaks of the step a handler takes.    *)

\* The task a handler step starts from and the task it leaves in STATE_FILE.
Before == load_email_task(state_file)

After == load_email_task(state_file')

\* The step was made by one of the two handlers that drive the task.
TaskCall(l) == l.op \in {"send_emails", "process_next"}

\* The call processed a company and sent to it or skipped it.
SentOrSkipped(l) == l.msg \in {"sent", "skipped", "skipped_condition"}

\* The mailer failed on every one of the attempts the retry loop allows.
AllAttemptsFailed(l) ==
  /\ Len(l.calls) = retries
  /\ \A i \in 1..Len(l.calls) : l.calls[i] # None

\* 2024-12-12 as a day number: November has 30 days.
Dec12 == 30 + 12

(* C1: a send_emails call made while the persisted task has in_progress =  *)
(* TRUE is rejected with an error, calls the mailer zero times, processes  *)
(* no company and leaves every field of the persisted task unchanged.      *)
C1_StartRejectedWhileInProgress ==
  [][(Before.in_progress /\ last'.op = "send_emails")
       => /\ last'.code = 400
          /\ last'.msg = "already_in_progress"
          /\ last'.calls = <<>>
          /\ last'.company = None
          /\ state_file' = state_file
          /\ outcomes' = outcomes]_vars

C1_Witness ==
  /\ last.op = "send_emails"
  /\ last.msg = "already_in_progress"
  /\ state_file # NoFile
  /\ state_file.in_progress
  /\ state_file.current_index # state_file.start_index

(* C2: within one task current_index starts at start_index and changes     *)
(* only by +1.  A send_emails call that creates a task leaves              *)
(* current_index at start_index or start_index + 1; a process_next call on *)
(* a task in progress keeps the range and leaves current_index as it was   *)
(* or one higher; a call that sends to or skips a company processes the    *)
(* company at the old current_index, only that one, and raises             *)
(* current_index by exactly 1; no other step changes the persisted task;   *)
(* the indices the task processed are strictly ascending.                  *)
C2_IndexAdvancesByOne ==
  [][/\ last'.started =>
          /\ After.current_index \in {After.start_index,
                                      Some(Val(After.start_index) + 1)}
          /\ SentOrSkipped(last') =>
               /\ last'.company = After.start_index
               /\ After.current_index = Some(Val(After.start_index) + 1)
          /\ Len(outcomes') <= 1
     /\ (last'.op = "process_next" /\ Before.in_progress) =>
          /\ After.start_index = Before.start_index
          /\ After.end_index = Before.end_index
          /\ After.current_index \in {Before.current_index,
                                      Some(Val(Before.current_index) + 1)}
          /\ SentOrSkipped(last') =>
               /\ last'.company = Before.current_index
               /\ After.current_index = Some(Val(Before.current_index) + 1)
          /\ Len(outcomes') <= Len(outcomes) + 1
     /\ (~TaskCall(last') \/ (~last'.started /\ ~Before.in_progress)) =>
          state_file' = state_file
     /\ \A i, j \in 1..Len(outcomes') :
          i < j => outcomes'[i].idx < outcomes'[j].idx]_vars

C2_Witness ==
  /\ last.op = "process_next"
  /\ last.company = Some(1)
  /\ SentOrSkipped(last)
  /\ Len(outcomes) = 2
  /\ state_file.start_index = Some(0)
  /\ state_file.current_index = Some(2)


\* The result an uninterrupted process records for the company at idx of the
\* dataset the task was started on, given what the mailer did in the call.
UninterruptedResult(idx, l) ==
  LET d == decide(Val(task_data)[idx + 1], today) IN
  IF d.kind = "raise" THEN "raised"
  ELSE IF d.kind = "send"
       THEN IF AllAttemptsFailed(l) THEN "failed" ELSE "sent"
  ELSE "skipped"

(* C3: while the dataset has not been uploaded again since the task was    *)
(* started, every step of the task records for its company the result the  *)
(* uninterrupted process records for it (the same decision on the same     *)
(* company), whether or not the process was restarted in between.          *)
C3_RestartKeepsOutcomes ==
  (/\ last.op = "process_next"
   /\ last.msg \notin {"no_task", "finished"}
   /\ task_data # None)
    => LET entry == outcomes[Len(outcomes)] IN
       entry.result = UninterruptedResult(entry.idx, last)

(* C4: when the mailer fails on each of the 2 attempts for the company at  *)
(* current_index, the call leaves the task not in progress with error set, *)
(* current_index and sent_emails as they were before the company; every    *)
(* process_next call on a task that is not in progress is rejected, calls  *)
(* the mailer zero times and leaves the persisted task unchanged.          *)
C4_MailerFailureIsTerminal ==
  [][/\ (TaskCall(last') /\ AllAttemptsFailed(last')) =>
          /\ last'.code = 500
          /\ ~After.in_progress
          /\ After.error # None
          /\ After.current_index = last'.company
          /\ After.current_index =
               (IF last'.started THEN After.start_index
                ELSE Before.current_index)
          /\ After.sent_emails =
               (IF last'.started THEN 0 ELSE Before.sent_emails)
     /\ (last'.op = "process_next" /\ ~Before.in_progress) =>
          /\ last'.code = 400
          /\ last'.msg = "no_task"
          /\ last'.calls = <<>>
          /\ last'.company = None
          /\ state_file' = state_file
          /\ outcomes' = outcomes]_vars

C4_Witness ==
  /\ last.op = "process_next"
  /\ last.msg = "no_task"
  /\ state_file # NoFile
  /\ state_file.error = Some("SMTPAuthenticationError")
  /\ state_file.current_index = Some(1)
  /\ state_file.sent_emails > 0
  /\ outcomes[Len(outcomes)] = [idx |-> 1, result |-> "failed"]

(* C5 as claimed: once a call has sent to or skipped the company at        *)
(* end_index, the persisted task is not in progress and email_status does  *)
(* not report in_progress.                                                 *)
C5_TerminalOnCompletingEnd ==
  (/\ TaskCall(last)
   /\ SentOrSkipped(last)
   /\ last.company = load_email_task(state_file).end_index)
    => /\ ~load_email_task(state_file).in_progress
       /\ status_of(load_email_task(state_file)) # "in_progress"

(* C5 as amended: the call that sends to or skips the company at end_index *)
(* leaves the task in progress with current_index = end_index + 1, and     *)
(* email_status then reports in_progress; the next process_next call       *)
(* processes no company, sets in_progress to FALSE, changes no other field *)
(* and answers with the completion summary, after which email_status       *)
(* reports completed; a completion summary is only given at current_index  *)
(* = end_index + 1.                                                        *)
C5_TerminalOnStepPastEnd ==
  [][/\ (/\ TaskCall(last')
         /\ SentOrSkipped(last')
         /\ last'.company = After.end_index) =>
          /\ After.in_progress
          /\ After.current_index = Some(Val(After.end_index) + 1)
          /\ status_of(After) = "in_progress"
     /\ (/\ last'.op = "process_next"
         /\ Before.in_progress
         /\ Val(Before.current_index) > Val(Before.end_index)) =>
          /\ last'.msg = "finished"
          /\ last'.company = None
          /\ last'.calls = <<>>
          /\ After = [Before EXCEPT !.in_progress = FALSE]
          /\ status_of(After) = "completed"
     /\ last'.msg = "finished" =>
          Val(After.current_index) = Val(After.end_index) + 1]_vars

C5_Witness ==
  /\ last.op = "process_next"
  /\ last.msg = "finished"
  /\ ~state_file.in_progress
  /\ state_file.current_index = Some(Val(state_file.end_index) + 1)
  /\ Len(outcomes) = 2

\* The recipients the step reaches for a company when the mailer works.
Reached(company, current_date) ==
  LET d == decide(company, current_date) IN
  IF d.kind = "send" THEN Len(d.to) ELSE 0

RECURSIVE ReachedInRange(_, _, _, _)
ReachedInRange(data, from, to, current_date) ==
  IF from > to THEN 0
  ELSE Reached(data[from + 1], current_date)
       + ReachedInRange(data, from + 1, to, current_date)

(* C6: the total_emails_to_send an accepted send_emails call computes is   *)
(* the number of recipients of the companies in [start_index, end_index]   *)
(* that the step would send to on that day.                                *)
C6_TotalCountsOnlySentCompanies ==
  last.started =>
    state_file.total_emails_to_send =
      ReachedInRange(companies_data, Val(state_file.start_index),
                     Val(state_file.end_index), today)


\* The request breaks one of the preconditions of a start, as C7 lists them.
ViolatesPrecondition(req, data) ==
  \/ req.email = None
  \/ req.password = None
  \/ data = <<>>
  \/ (req.startIndex # None /\ Val(req.startIndex) < 0)
  \/ (req.endIndex # None /\ Val(req.endIndex) >= Len(data))
  \/ (/\ req.startIndex # None
      /\ req.endIndex # None
      /\ Val(req.startIndex) > Val(req.endIndex))

(* C7: in every state a send_emails call is made from (send_emails is     *)
(* enabled in every state), a request with start_index < 0, start_index >  *)
(* end_index, end_index >= the number of loaded companies, an empty        *)
(* dataset or missing credentials is not accepted; and a send_emails call  *)
(* that is not accepted processes no company, calls the mailer zero times  *)
(* and leaves the persisted task exactly as it was.                        *)
C7_InvalidStartChangesNothing ==
  [][/\ last'.op = "send_emails" =>
          \A req \in Requests :
            ViolatesPrecondition(req, companies_data) =>
              validate(Before, req, companies_data) # "accept"
     /\ (last'.op = "send_emails" /\ ~last'.started) =>
          /\ last'.code \in {400, 500}
          /\ last'.company = None
          /\ last'.calls = <<>>
          /\ state_file' = state_file
          /\ outcomes' = outcomes
          /\ companies_data' = companies_data]_vars

C7_Witness ==
  /\ last.op = "send_emails"
  /\ last.msg = "invalid_range"
  /\ companies_data # <<>>
  /\ state_file # NoFile
  /\ ~state_file.in_progress
  /\ state_file.sent_emails > 0

(* C8 as claimed: when an accepted send_emails call returns, the persisted *)
(* task has current_index = start_index, sent_emails = 0, in_progress =    *)
(* TRUE and no error, no company has been processed and the mailer has not *)
(* been called.                                                            *)
C8_StartProcessesNoCompany ==
  last.started =>
    /\ state_file.current_index = state_file.start_index
    /\ state_file.sent_emails = 0
    /\ state_file.in_progress
    /\ state_file.error = None
    /\ last.company = None
    /\ last.calls = <<>>

(* C8 as amended: an accepted send_emails call creates the task for the    *)
(* requested range and runs one step on it before it returns, so the       *)
(* company at start_index has been processed.  If it was sent to or        *)
(* skipped, the persisted task is in progress with no error, current_index *)
(* = start_index + 1 and sent_emails = the recipients mailed in this call  *)
(* (0 for a skip); otherwise (the mailer failed on both attempts, or the   *)
(* greeting could not be composed) it is not in progress, error is set,    *)
(* current_index = start_index and sent_emails = 0.                        *)
C8_StartProcessesFirstCompany ==
  last.started =>
    /\ state_file.start_index # None
    /\ Val(state_file.start_index) <= Val(state_file.end_index)
    /\ Val(state_file.end_index) < Len(companies_data)
    /\ last.company = state_file.start_index
    /\ state_file.total_emails_to_send =
         count_total_emails(companies_data, Val(state_file.start_index),
                            Val(state_file.end_index))
    /\ IF SentOrSkipped(last)
       THEN /\ last.code = 200
            /\ state_file.in_progress
            /\ state_file.error = None
            /\ state_file.current_index = Some(Val(state_file.start_index) + 1)
            /\ state_file.sent_emails =
                 (IF last.msg = "sent" THEN Len(last.to) ELSE 0)
            /\ (last.msg = "sent") = (last.calls # <<>>)
       ELSE /\ last.code = 500
            /\ ~state_file.in_progress
            /\ state_file.error # None
            /\ state_file.current_index = state_file.start_index
            /\ state_file.sent_emails = 0

C8_Witness ==
  /\ last.started
  /\ last.msg = "sent"
  /\ state_file.start_index = Some(1)
  /\ state_file.current_index = Some(2)
  /\ state_file.sent_emails = 2

\* The response is 'no' in some letter case.
IsNo(response) ==
  /\ IsStr(response)
  /\ Len(response.v) = 2
  /\ response.v[1] \in {"n", "N"}
  /\ response.v[2] \in {"o", "O"}

\* The response is 'yes' in some letter case.
IsYes(response) ==
  /\ IsStr(response)
  /\ Len(response.v) = 3
  /\ response.v[1] \in {"y", "Y"}
  /\ response.v[2] \in {"e", "E"}
  /\ response.v[3] \in {"s", "S"}

\* The response is absent (NaN) or the empty string.
IsAbsent(response) == IsNa(response) \/ (IsStr(response) /\ response.v = <<>>)

\* The company has a valid email and a greeting that is composed and is not
\* empty.
HasRecipients(company) ==
  /\ \E i \in 1..Len(company.Email) :
       IsStr(company.Email[i]) /\ Contains(company.Email[i].v, "@")
  /\ ~names_list(company).raised
  /\ Truthy(names_list(company).value)

\* The company the call in `l` processed.
CompanyOf(l) == companies_data[Val(l.company) + 1]

(* C9: a step that processes a company calls the mailer if and only if the *)
(* company has at least one valid email and a non-empty greeting and its   *)
(* response is absent or empty, or is 'no' in any letter case on a day >=  *)
(* 2024-12-12; a company whose response is 'yes' in any letter case, or    *)
(* any other text, is never mailed.                                        *)
C9_MailedIffSelected ==
  (TaskCall(last) /\ last.company # None) =>
    LET company == CompanyOf(last) IN
    /\ (last.calls # <<>>) <=>
         /\ HasRecipients(company)
         /\ \/ IsAbsent(company.Response)
            \/ (IsNo(company.Response) /\ today >= Dec12)
    /\ IsYes(company.Response) => last.calls = <<>>
    /\ (/\ ~IsAbsent(company.Response)
        /\ ~IsNo(company.Response)) => last.calls = <<>>

C9_Witness ==
  /\ TaskCall(last)
  /\ last.company # None
  /\ last.calls # <<>>
  /\ IsNo(CompanyOf(last).Response)
  /\ CompanyOf(last).Response.v # <<"n", "o">>
  /\ today = Dec12

(* C10: for a company whose response is 'no' in any letter case, on a day  *)
(* before 2024-12-12 the step skips it (no mailer call, sent_emails        *)
(* unchanged, current_index + 1), and from 2024-12-12 on the step selects  *)
(* the follow-up template, never the initial one; the initial template is  *)
(* selected only for an absent or empty response.                          *)
C10_NoResponseSkippedBeforeFollowUp ==
  [][(TaskCall(last') /\ last'.company # None) =>
       LET company == companies_data[Val(last'.company) + 1] IN
       /\ (IsNo(company.Response) /\ today < Dec12) =>
            /\ last'.calls = <<>>
            /\ After.sent_emails =
                 (IF last'.started THEN 0 ELSE Before.sent_emails)
            /\ After.current_index = Some(Val(last'.company) + 1)
       /\ (IsNo(company.Response) /\ today >= Dec12) =>
            last'.template # "initial"
       /\ last'.template = "initial" => IsAbsent(company.Response)]_vars


\* No entry of the company's Email list is a string that contains '@'.
NoValidEmail(company) ==
  ~\E i \in 1..Len(company.Email) :
     IsStr(company.Email[i]) /\ Contains(company.Email[i].v, "@")

(* C11: a step that processes a company with no email entry that is a      *)
(* string containing '@' skips it whatever its first names and response    *)
(* are: no mailer call, sent_emails unchanged, current_index + 1, the task *)
(* in progress with no error; and the company adds 0 to                    *)
(* total_emails_to_send (a task started on such a company alone has total  *)
(* 0).                                                                     *)
C11_NoValidEmailsSkipped ==
  [][(/\ TaskCall(last')
      /\ last'.company # None
      /\ NoValidEmail(companies_data[Val(last'.company) + 1])) =>
       /\ last'.code = 200
       /\ last'.msg = "skipped"
       /\ last'.calls = <<>>
       /\ After.sent_emails = (IF last'.started THEN 0 ELSE Before.sent_emails)
       /\ After.current_index = Some(Val(last'.company) + 1)
       /\ After.in_progress
       /\ After.error = None
       /\ planned_emails(companies_data[Val(last'.company) + 1]) = 0
       /\ (last'.started /\ After.start_index = After.end_index) =>
            After.total_emails_to_send = 0]_vars

C11_Witness ==
  /\ last.op = "process_next"
  /\ last.company = Some(1)
  /\ last.msg = "skipped"
  /\ NoValidEmail(CompanyOf(last))
  /\ IsNa(CompanyOf(last).FirstName[1])
  /\ IsNo(CompanyOf(last).Response)
  /\ state_file.current_index = Some(2)
  /\ state_file.sent_emails > 0
  /\ state_file.in_progress

(* C12: email_status reports exactly one of in_progress, failed and        *)
(* completed for the persisted task: in_progress exactly when in_progress  *)
(* is TRUE; failed exactly when in_progress is FALSE and error is set;     *)
(* completed exactly when a task has been persisted, it is not in          *)
(* progress, it has no error and its current_index is past end_index.  So  *)
(* completed is not reported while no task has ever been persisted.        *)
C12_StatusClassifiesTask ==
  last.op = "email_status" =>
    LET task == load_email_task(state_file) IN
    /\ last.msg \in {"in_progress", "failed", "completed"}
    /\ (last.msg = "in_progress") <=> task.in_progress
    /\ (last.msg = "failed") <=> (~task.in_progress /\ task.error # None)
    /\ (last.msg = "completed") <=>
         /\ state_file # NoFile
         /\ ~task.in_progress
         /\ task.error = None
         /\ task.current_index # None
         /\ Val(task.current_index) > Val(task.end_index)

-----------------------------------------------------------------------------
(* STATE_FILE on a disk that cannot be written.  save_email_task catches   *)
(* the exception open or json.dump raises and prints it, so the handler    *)
(* goes on and the file keeps the content it had.  SpecDisk has the        *)
(* requests of Spec on a fixed day, and the task requests served while the *)
(* file cannot be written.                                                 *)

\* The content of STATE_FILE after a save_email_task(task) that raises inside.
save_email_task_failing(file, task) == file

\* POST /api/send-emails that passes validation while STATE_FILE cannot be
\* written: the new task is not saved, and process_next_company() loads the
\* task the file still holds.
send_emails_unwritable(req, mailer) ==
  LET created == new_task(req, companies_data)
      unsaved == save_email_task_failing(state_file, created)
      step == process_next_company(unsaved, companies_data, today, mailer)
  IN
  /\ validate(load_email_task(state_file), req, companies_data) = "accept"
  /\ state_file' = save_email_task_failing(unsaved, step.file)
  /\ email_task' = step.task
  /\ last' = [step.resp EXCEPT !.op = "send_emails", !.started = TRUE]
  /\ UNCHANGED <<companies_data, today, outcomes, task_data, threads>>

\* POST /api/process-next while STATE_FILE cannot be written.
process_next_unwritable(mailer) ==
  LET step == process_next_company(state_file, companies_data, today, mailer) IN
  /\ Len(outcomes) < MaxHistory
  /\ state_file' = save_email_task_failing(state_file, step.file)
  /\ email_task' = step.task
  /\ last' = step.resp
  /\ outcomes' = outcomes \o step.log
  /\ UNCHANGED <<companies_data, today, task_data, threads>>

\* The spreadsheets uploaded in the specifications that refine the requests
\* of Spec: companies that are sent to and companies that are skipped.
SmallCatalogue ==
  { Company(<<Str(S_a)>>, <<Str(<<"A">>)>>, NaN),
    Company(<<Str(S_a)>>, <<Str(<<"A">>)>>, Str(<<"Y", "E", "S">>)) }

SmallDatasets == UNION { [1..n -> SmallCatalogue] : n \in 0..MaxCompanies }

NextDisk ==
  \/ \E data \in SmallDatasets : upload_excel(data)
  \/ send_emails
  \/ \E mailer \in MailerRunsFor(state_file) : process_next(mailer)
  \/ email_status
  \/ Restart
  \/ \E req \in Requests : \E mailer \in MailerRunsFor(state_file) :
       send_emails_unwritable(req, mailer)
  \/ \E mailer \in MailerRunsFor(state_file) : process_next_unwritable(mailer)

SpecDisk == Init /\ [][NextDisk]_vars

(* C13: a task request whose save of the task fails is not answered as a   *)
(* success.  Every send_emails or process_next call that answers 200 has   *)
(* left its result in STATE_FILE: after 'sent' or 'skipped' the persisted  *)
(* task is in progress with current_index one past the company and         *)
(* sent_emails raised by the recipients mailed, after 'finished' it is not *)
(* in progress; and an accepted send_emails call that does not answer 200  *)
(* leaves the persisted task failed with error set.                        *)
C13_SaveFailureSurfaced ==
  [][/\ (TaskCall(last') /\ last'.code = 200 /\ SentOrSkipped(last')) =>
          /\ After.in_progress
          /\ After.current_index = Some(Val(last'.company) + 1)
          /\ After.sent_emails =
               (IF last'.started THEN 0 ELSE Before.sent_emails)
               + (IF last'.msg = "sent" THEN Len(last'.to) ELSE 0)
     /\ (TaskCall(last') /\ last'.msg = "finished") => ~After.in_progress
     /\ (last'.started /\ last'.code # 200) =>
          /\ ~After.in_progress
          /\ After.error # None]_vars

-----------------------------------------------------------------------------
(* process_next requests served by several threads of the one process.     *)
(* email_task is a module global: each thread rebinds it when it loads the *)
(* task and later updates whatever dict the name is bound to then, while   *)
(* current_index and valid_emails are locals of the thread.  Nothing locks *)
(* STATE_FILE or the global.  A thread can be overtaken where it waits for *)
(* the network: before the retry loop talks to the mail server, and before *)
(* server.quit() returns and the step moves the index and saves.           *)

\* The step of the task in `file` gets as far as the retry loop.
reaches_mailer(file) ==
  LET task == load_email_task(file) IN
  /\ task.in_progress
  /\ ~past_end(task)
  /\ Val(task.current_index) < Len(companies_data)
  /\ decide(companies_data[Val(task.current_index) + 1], today).kind = "send"

AllIdle == \A t \in Threads : threads[t] = Idle

\* A request that never reaches the mailer is served in one piece.
step_without_mailer(t) ==
  /\ threads[t].pc = "idle"
  /\ ~reaches_mailer(state_file)
  /\ process_next([attempt \in 1..retries |-> None])

\* Thread t loads the task and resolves the recipients of its company.
step_load(t) ==
  /\ threads[t].pc = "idle"
  /\ reaches_mailer(state_file)
  /\ LET task == load_email_task(state_file)
         company == companies_data[Val(task.current_index) + 1]
     IN
     /\ email_task' = task
     /\ threads' = [threads EXCEPT ![t] =
                      [pc |-> "send", current_index |-> task.current_index,
                       valid_emails |-> valid_emails(company.Email)]]
  /\ UNCHANGED <<companies_data, state_file, today, last, outcomes, task_data>>

\* Thread t runs the retry loop for its company.
step_send(t, mailer) ==
  LET run == send_with_retries(mailer, 1)
      mine == threads[t]
      Resp(code, msg) ==
        [op |-> "process_next", code |-> code, msg |-> msg, calls |-> run.calls,
         company |-> mine.current_index,
         template |-> select_template(
                        companies_data[Val(mine.current_index) + 1].Response,
                        today),
         to |-> mine.valid_emails, started |-> FALSE,
         replaced |-> "none"]
      Entry(result) == <<[idx |-> Val(mine.current_index), result |-> result]>>
  IN
  /\ mine.pc = "send"
  /\ Len(outcomes) < MaxHistory
  /\ IF run.error = None
     THEN /\ email_task' =
               [email_task EXCEPT !.sent_emails = @ + Len(mine.valid_emails)]
          /\ threads' = [threads EXCEPT ![t].pc = "save"]
          /\ outcomes' = outcomes \o Entry("sent")
          /\ UNCHANGED <<state_file, last>>
     ELSE /\ email_task' = mark_failed(email_task, Val(run.error))
          /\ state_file' = save_email_task(state_file, email_task')
          /\ threads' = [threads EXCEPT ![t] = Idle]
          /\ outcomes' = outcomes \o Entry("failed")
          /\ last' = Resp(500, "mailer_error")
  /\ UNCHANGED <<companies_data, today, task_data>>

\* Thread t moves the index on, saves and answers.
step_save(t) ==
  LET mine == threads[t] IN
  /\ mine.pc = "save"
  /\ email_task' = advance(email_task)
  /\ state_file' = save_email_task(state_file, email_task')
  /\ threads' = [threads EXCEPT ![t] = Idle]
  /\ last' = [op |-> "process_next", code |-> 200, msg |-> "sent",
              calls |-> <<None>>, company |-> mine.current_index,
              template |-> select_template(
                             companies_data[Val(mine.current_index) + 1].Response,
                             today),
              to |-> mine.valid_emails, started |-> FALSE,
         replaced |-> "none"]
  /\ UNCHANGED <<companies_data, today, outcomes, task_data>>

\* Only process_next requests overlap: uploads, starts and status requests
\* are made while no step is being served.
NextThreads ==
  \/ AllIdle /\ \E data \in SmallDatasets : upload_excel(data)
  \/ AllIdle /\ send_emails
  \/ \E t \in Threads : step_without_mailer(t)
  \/ \E t \in Threads : step_load(t)
  \/ \E t \in Threads : \E mailer \in MailerRuns : step_send(t, mailer)
  \/ \E t \in Threads : step_save(t)
  \/ AllIdle /\ email_status

SpecThreads == Init /\ [][NextThreads]_vars

\* The companies the history records as mailed.
Mailed == { outcomes[i].idx : i \in { j \in 1..Len(outcomes) :
                                       outcomes[j].result = "sent" } }

\* The number of valid emails of the companies of data at indices.
RECURSIVE Recipients(_, _)
Recipients(data, indices) ==
  IF indices = {} THEN 0
  ELSE LET idx == CHOOSE i \in indices : TRUE IN
       Len(valid_emails(data[idx + 1].Email))
       + Recipients(data, indices \ {idx})

(* C14: with process_next requests served at the same time, no company of  *)
(* the task is mailed more than once, and when no request is being served  *)
(* sent_emails is the number of recipients of the companies mailed.        *)
C14_ConcurrentStepsMailOnce ==
  (state_file # NoFile /\ task_data # None) =>
    /\ \A i, j \in 1..Len(outcomes) :
         (/\ i < j
          /\ outcomes[i].result = "sent"
          /\ outcomes[j].result = "sent") => outcomes[i].idx # outcomes[j].idx
    /\ AllIdle => state_file.sent_emails = Recipients(companies_data, Mailed)

(* C15: a step calls the mailer at most retries (2) times for its company, *)
(* each attempt but the first only after the one before it failed.  If an  *)
(* attempt succeeds it is the last one, and the step raises sent_emails by *)
(* the number of valid emails of the company, once, raises current_index   *)
(* by 1 and leaves the task in progress with no error.                     *)
C15_RetryAtMostTwice ==
  [][TaskCall(last') =>
       LET calls == last'.calls IN
       /\ Len(calls) <= retries
       /\ \A i \in 1..Len(calls) : i < Len(calls) => calls[i] # None
       /\ (\E i \in 1..Len(calls) : calls[i] = None) =>
            LET company == companies_data[Val(last'.company) + 1] IN
            /\ last'.code = 200
            /\ last'.to = valid_emails(company.Email)
            /\ After.sent_emails =
                 (IF last'.started THEN 0 ELSE Before.sent_emails)
                 + Len(valid_emails(company.Email))
            /\ After.current_index = Some(Val(last'.company) + 1)
            /\ After.current_index =
                 Some(Val(IF last'.started THEN After.start_index
                          ELSE Before.current_index) + 1)
            /\ After.in_progress
            /\ After.error = None]_vars

C15_Witness ==
  /\ last.op = "process_next"
  /\ last.calls = <<Some("SMTPAuthenticationError"), None>>
  /\ last.msg = "sent"
  /\ last.company = Some(1)
  /\ Len(last.to) = 2
  /\ state_file.sent_emails = 3
  /\ state_file.current_index = Some(2)
  /\ state_file.in_progress

(* C16: a process_next call on a task in progress whose current_index is   *)
(* past end_index sets in_progress to FALSE and answers 200 with the       *)
(* completion summary; it calls the mailer zero times, processes no        *)
(* company and leaves current_index, sent_emails, total_emails_to_send,    *)
(* start_index, end_index and error as they were.  The process_next call   *)
(* that follows a completion summary is rejected with 'no task in          *)
(* progress' and changes nothing.                                          *)
C16_StepPastEndCompletes ==
  [][/\ (/\ last'.op = "process_next"
         /\ Before.in_progress
         /\ Val(Before.current_index) > Val(Before.end_index)) =>
          /\ last'.code = 200
          /\ last'.msg = "finished"
          /\ last'.calls = <<>>
          /\ last'.company = None
          /\ outcomes' = outcomes
          /\ ~After.in_progress
          /\ After.current_index = Before.current_index
          /\ After.sent_emails = Before.sent_emails
          /\ After.total_emails_to_send = Before.total_emails_to_send
          /\ After.start_index = Before.start_index
          /\ After.end_index = Before.end_index
          /\ After.error = Before.error
     /\ (last.msg = "finished" /\ last'.op = "process_next") =>
          /\ last'.code = 400
          /\ last'.msg = "no_task"
          /\ last'.calls = <<>>
          /\ state_file' = state_file]_vars

C16_Witness ==
  /\ last.op = "process_next"
  /\ last.msg = "no_task"
  /\ state_file # NoFile
  /\ ~state_file.in_progress
  /\ state_file.error = None
  /\ state_file.current_index = Some(Val(state_file.end_index) + 1)
  /\ state_file.sent_emails > 0
  /\ state_file.sent_emails < state_file.total_emails_to_send

\* Why a company is skipped on `day`, "none" when it is not: the reasons in
\* the order the step looks for them, for a company whose greeting can be
\* composed.
SkipReason(company, day) ==
  IF NoValidEmail(company) THEN "no valid emails"
  ELSE IF names_list(company).raised THEN "none"
  ELSE IF names_list(company).value = Str(<<>>) THEN "no valid names"
  ELSE IF IsYes(company.Response) THEN "response yes"
  ELSE IF IsAbsent(company.Response) THEN "none"
  ELSE IF IsNo(company.Response) /\ day >= Dec12 THEN "none"
  ELSE "condition not met"

(* C17: a step that skips its company (no valid emails, no valid names,    *)
(* response 'yes', or response and date condition not met) is not fatal:   *)
(* it answers 200, calls the mailer zero times, leaves sent_emails as it   *)
(* was, leaves the task in progress with no error and raises current_index *)
(* by exactly 1, so that a process_next call that follows it is on the     *)
(* next company or on the end of the range; and a step answers 'skipped'   *)
(* only for a company with one of these reasons.                           *)
C17_SkipIsNotFatal ==
  [][/\ (TaskCall(last') /\ last'.company # None) =>
          LET company == companies_data[Val(last'.company) + 1]
              reason == SkipReason(company, today)
          IN
          /\ reason # "none" =>
               /\ last'.code = 200
               /\ last'.msg \in {"skipped", "skipped_condition"}
               /\ last'.calls = <<>>
               /\ After.sent_emails =
                    (IF last'.started THEN 0 ELSE Before.sent_emails)
               /\ After.in_progress
               /\ After.error = None
               /\ After.current_index = Some(Val(last'.company) + 1)
               /\ After.current_index =
                    Some(Val(IF last'.started THEN After.start_index
                             ELSE Before.current_index) + 1)
          /\ last'.msg \in {"skipped", "skipped_condition"} => reason # "none"
     /\ (/\ last.msg \in {"skipped", "skipped_condition"}
         /\ last'.op = "process_next") =>
          \/ last'.company = Some(Val(last.company) + 1)
          \/ last'.msg \in {"finished", "processing_error"}]_vars

C17_Witness ==
  /\ last.op = "process_next"
  /\ last.msg = "skipped"
  /\ last.company = Some(1)
  /\ SkipReason(CompanyOf(last), today) = "no valid names"
  /\ state_file.in_progress
  /\ state_file.error = None
  /\ state_file.sent_emails = 2
  /\ state_file.current_index = Some(2)

-----------------------------------------------------------------------------
(* Uploads while a task exists.  upload_excel replaces companies_data      *)
(* whatever the persisted task is.  SpecUpload keeps, in task_data, the    *)
(* dataset the task was started on across the uploads that follow.         *)

\* POST /api/upload-excel, the history of the task left as it is.
upload_excel_over_task(data) ==
  /\ companies_data' = data
  /\ last' = Plain("upload_excel", 200, "processed")
  /\ UNCHANGED <<state_file, email_task, today, outcomes, task_data, threads>>

NextUpload ==
  \/ \E data \in SmallDatasets : upload_excel_over_task(data)
  \/ send_emails
  \/ \E mailer \in MailerRunsFor(state_file) : process_next(mailer)
  \/ email_status

SpecUpload == Init /\ [][NextUpload]_vars

(* C18: every process_next call on a task in progress that has a company   *)
(* left to process finds current_index inside the dataset loaded at that   *)
(* time, and the company it reads there is the company that index held in  *)
(* the dataset the task was started on.                                    *)
C18_StepReadsCompanyOfStart ==
  [][(/\ last'.op = "process_next"
      /\ Before.in_progress
      /\ Val(Before.current_index) <= Val(Before.end_index)) =>
       /\ Val(Before.current_index) < Len(companies_data)
       /\ companies_data[Val(Before.current_index) + 1]
            = Val(task_data)[Val(Before.current_index) + 1]
       /\ last'.company = Before.current_index]_vars

-----------------------------------------------------------------------------
(* A caller that keeps calling process_next.  In SpecLive the mailer       *)
(* succeeds within the attempts of each step, the dataset is uploaded only *)
(* while no task is in progress, the process is not restarted, and a       *)
(* process_next call that can change the state is eventually made.         *)

\* The mailer succeeds on one of the attempts.
SucceedingRuns == { mailer \in MailerRuns : \E a \in 1..retries : mailer[a] = None }

\* The spreadsheets uploaded in SpecLive: a company that is sent to, one that
\* is skipped, and one with an empty First Name cell among two valid emails.
LiveCatalogue ==
  SmallCatalogue
  \cup { Company(<<Str(S_a), Str(S_b)>>, <<NaN, Str(<<"B">>)>>, Str(<<"n", "o">>)) }

LiveDatasets == UNION { [1..n -> LiveCatalogue] : n \in 0..MaxCompanies }

upload_between_tasks ==
  /\ ~load_email_task(state_file).in_progress
  /\ \E data \in LiveDatasets : upload_excel(data)

start_with_working_mailer ==
  \E req \in { r \in Requests :
                 validate(load_email_task(state_file), r, companies_data) = "accept" } :
    \E mailer \in MailerRunsFor(new_task(req, companies_data)) \cap SucceedingRuns :
      send_emails_accepted(req, mailer)

step_with_working_mailer ==
  \E mailer \in MailerRunsFor(state_file) \cap SucceedingRuns : process_next(mailer)

NextLive ==
  \/ upload_between_tasks
  \/ start_with_working_mailer
  \/ step_with_working_mailer
  \/ email_status

SpecLive == Init /\ [][NextLive]_vars /\ WF_vars(step_with_working_mailer)

\* The persisted task is in progress.
TaskInProgress == state_file # NoFile /\ state_file.in_progress

\* The persisted task is completed: it ran past end_index without an error.
TaskCompleted ==
  /\ state_file # NoFile
  /\ ~state_file.in_progress
  /\ state_file.error = None
  /\ state_file.current_index = Some(Val(state_file.end_index) + 1)

(* C19: when the mailer succeeds within its attempts for every company,    *)
(* the dataset is not changed during a task and process_next keeps being   *)
(* called, a task in progress leads to the completed task: in_progress     *)
(* FALSE, no error, current_index = end_index + 1.                         *)
C19_TaskEventuallyCompletes == TaskInProgress ~> TaskCompleted

(* C20: while the dataset of the task has not been uploaded again, in      *)
(* every state the persisted task has 0 <= sent_emails <=                  *)
(* total_emails_to_send and start_index <= current_index <= end_index + 1, *)
(* the companies mailed lie in [start_index, current_index), each mailed   *)
(* once, and sent_emails is the sum of their numbers of valid emails.      *)
C20_CountsAndIndexInRange ==
  (state_file # NoFile /\ task_data # None) =>
    LET task == state_file
        data == Val(task_data)
    IN
    /\ 0 <= task.sent_emails
    /\ task.sent_emails <= task.total_emails_to_send
    /\ Val(task.start_index) <= Val(task.current_index)
    /\ Val(task.current_index) <= Val(task.end_index) + 1
    /\ \A idx \in Mailed :
         /\ Val(task.start_index) <= idx
         /\ idx < Val(task.current_index)
    /\ \A i, j \in 1..Len(outcomes) : i < j => outcomes[i].idx # outcomes[j].idx
    /\ task.sent_emails = Recipients(data, Mailed)

C20_Witness ==
  /\ state_file # NoFile
  /\ task_data # None
  /\ ~state_file.in_progress
  /\ state_file.start_index = Some(0)
  /\ state_file.current_index = Some(2)
  /\ state_file.sent_emails = 2
  /\ state_file.total_emails_to_send = 3
  /\ Mailed = {1}

\* The request meets every precondition of a start on the dataset data.
ValidStart(req, data) ==
  /\ req.email # None
  /\ req.password # None
  /\ req.startIndex # None
  /\ req.endIndex # None
  /\ 0 <= Val(req.startIndex)
  /\ Val(req.startIndex) <= Val(req.endIndex)
  /\ Val(req.endIndex) < Len(data)

\* STATE_FILE holds a task that is completed or failed.
TerminalTask(file) == file # NoFile /\ ~file.in_progress

(* C21 as claimed: when a send_emails call that replaces a completed or    *)
(* failed task returns, the persisted task has sent_emails = 0 and no      *)
(* error, and email_status does not report failed.                         *)
C21_NewTaskStartsFromZero ==
  [][(TerminalTask(state_file) /\ last'.started) =>
       /\ After.sent_emails = 0
       /\ After.error = None
       /\ status_of(After) # "failed"]_vars

(* C21 as amended: from a state whose persisted task is completed or       *)
(* failed, every request that meets the preconditions of a start is        *)
(* accepted, and an accepted send_emails call leaves in STATE_FILE a task  *)
(* made from the request and from the one step the call runs on it: the    *)
(* range and credentials of a valid request, total_emails_to_send counted  *)
(* over that range, a history of the one company at start_index; if that   *)
(* company was sent to or skipped, no error, in_progress TRUE, sent_emails *)
(* = the recipients mailed in this call, and email_status reports          *)
(* in_progress; otherwise the error of this call's own step, sent_emails = *)
(* 0 and email_status reports failed.  Nothing of the old task's           *)
(* sent_emails or error is kept.                                           *)
C21_StartReplacesTerminalTask ==
  [][(TerminalTask(state_file) /\ last'.op = "send_emails") =>
       /\ \A req \in Requests :
            ValidStart(req, companies_data) =>
              validate(Before, req, companies_data) = "accept"
       /\ last'.started =>
            /\ last'.replaced \in {"completed", "failed"}
            /\ \E req \in Requests :
                 /\ ValidStart(req, companies_data)
                 /\ After.start_index = req.startIndex
                 /\ After.end_index = req.endIndex
                 /\ After.email = req.email
                 /\ After.password = req.password
            /\ After.total_emails_to_send =
                 count_total_emails(companies_data, Val(After.start_index),
                                    Val(After.end_index))
            /\ Len(outcomes') = 1
            /\ outcomes'[1].idx = Val(After.start_index)
            /\ IF SentOrSkipped(last')
               THEN /\ After.in_progress
                    /\ After.error = None
                    /\ After.sent_emails =
                         (IF last'.msg = "sent" THEN Len(last'.to) ELSE 0)
                    /\ status_of(After) = "in_progress"
               ELSE /\ ~After.in_progress
                    /\ After.sent_emails = 0
                    /\ After.error # None
                    /\ AllAttemptsFailed(last') =>
                         After.error = last'.calls[retries]
                    /\ status_of(After) = "failed"]_vars

C21_Witness ==
  /\ last.started
  /\ last.replaced = "failed"
  /\ last.msg = "sent"
  /\ state_file.in_progress
  /\ state_file.error = None
  /\ state_file.start_index = Some(1)
  /\ state_file.sent_emails = 2

=============================================================================
